---- MODULE Spec2Model ----
(***************************************************************************)
(* Typed identifiers (model/id.rs) and the permission bit set              *)
(* (model/permissions.rs) of serenity.                                     *)
(*                                                                         *)
(* A u64 is kept at its full width as three little-endian limbs of 22, 22  *)
(* and 20 bits, <<l0, l1, l2>>, standing for l0 + l1*2^22 + l2*2^44; every *)
(* arithmetic step works limb by limb so that no intermediate result       *)
(* leaves the range of the checker's integers.  A string is a sequence of  *)
(* one-character strings.                                                  *)
(***************************************************************************)
EXTENDS Integers, Sequences, FiniteSets, TLC

VARIABLES kept, out, perm, pout, steps, msg, eout

idVars == <<kept, out>>

permVars == <<perm, pout, steps>>

editVars == <<msg, eout>>

vars == <<idVars, permVars, editVars>>

(***************************************************************************)
(* Bounds of the explored inputs.                                          *)
(***************************************************************************)
\* the low limb of a sampled u64 ranges over 0..SmallMax and the limb maximum
SmallMax == 1
\* free-form input strings have at most MaxStrLen characters
MaxStrLen == 2
\* raw permission bits are drawn from the first NBits of SampleBits
NBits == 4
\* at most MaxOps set operations follow a construction
MaxOps == 2
\* the "embeds" array of a message builder grows to at most MaxEmbeds
MaxEmbeds == 3
\* set_embeds is handed at most MaxList embeds
MaxList == 2

(***************************************************************************)
(* 64-bit unsigned arithmetic on limbs.                                    *)
(***************************************************************************)
Base == 2^22
TopBase == 2^20
SignLimb == 2^19

Zero64 == <<0, 0, 0>>
One64 == <<1, 0, 0>>
Max64 == <<Base - 1, Base - 1, TopBase - 1>>

IsU64(v) == /\ v[1] \in 0..(Base - 1)
            /\ v[2] \in 0..(Base - 1)
            /\ v[3] \in 0..(TopBase - 1)

\* v <= i64::MAX, i.e. bit 63 is clear
FitsI64(v) == v[3] < SignLimb

\* -1, 0, 1 as v is below, equal to, above w (u64's Ord)
Cmp64(v, w) ==
    IF v[3] # w[3] THEN (IF v[3] < w[3] THEN -1 ELSE 1)
    ELSE IF v[2] # w[2] THEN (IF v[2] < w[2] THEN -1 ELSE 1)
    ELSE IF v[1] # w[1] THEN (IF v[1] < w[1] THEN -1 ELSE 1)
    ELSE 0

\* v >> 22
Shr22(v) == <<v[2], v[3], 0>>

\* v + w, wrapping at 2^64
Add64(v, w) ==
    LET s0 == v[1] + w[1]
        s1 == v[2] + w[2] + (s0 \div Base)
        s2 == v[3] + w[3] + (s1 \div Base)
    IN  <<s0 % Base, s1 % Base, s2 % TopBase>>

\* v - w, wrapping at 2^64
Sub64(v, w) ==
    LET d0 == v[1] - w[1]
        d1 == v[2] - w[2] - (IF d0 < 0 THEN 1 ELSE 0)
        d2 == v[3] - w[3] - (IF d1 < 0 THEN 1 ELSE 0)
    IN  <<d0 % Base, d1 % Base, d2 % TopBase>>

\* v * 10 + d as [ov |-> it left the u64 range, val |-> the wrapped result]
MulAdd10(v, d) ==
    LET t0 == v[1] * 10 + d
        t1 == v[2] * 10 + (t0 \div Base)
        t2 == v[3] * 10 + (t1 \div Base)
    IN  [ov |-> t2 >= TopBase, val |-> <<t0 % Base, t1 % Base, t2 % TopBase>>]

\* v divided by a small d (d <= 511): [q |-> quotient, r |-> remainder]
DivMod(v, d) ==
    LET x2 == v[3]
        x1 == (x2 % d) * Base + v[2]
        x0 == (x1 % d) * Base + v[1]
    IN  [q |-> <<x0 \div d, x1 \div d, x2 \div d>>, r |-> x0 % d]

(***************************************************************************)
(* Decimal text.                                                           *)
(***************************************************************************)
Digits == <<"0", "1", "2", "3", "4", "5", "6", "7", "8", "9">>

IsDigit(c) == \E i \in 1..10 : Digits[i] = c

DigitVal(c) == (CHOOSE i \in 1..10 : Digits[i] = c) - 1

\* the string whose characters are the decimal digits ds
S(ds) == [i \in 1..Len(ds) |-> Digits[ds[i] + 1]]

\* fmt::Display of an unsigned integer: base 10, no sign, no leading zero
RECURSIVE ToDec(_)
ToDec(v) ==
    IF v[2] = 0 /\ v[3] = 0 /\ v[1] < 10
    THEN <<Digits[v[1] + 1]>>
    ELSE LET d == DivMod(v, 10) IN Append(ToDec(d.q), Digits[d.r + 1])

\* the digit loop of <u64 as FromStr>::from_str: each step is checked
RECURSIVE ParseDigits(_, _, _)
ParseDigits(s, i, acc) ==
    IF i > Len(s) THEN [t |-> "Ok", val |-> acc]
    ELSE IF ~IsDigit(s[i]) THEN [t |-> "Err", kind |-> "InvalidDigit"]
    ELSE LET m == MulAdd10(acc, DigitVal(s[i]))
         IN  IF m.ov THEN [t |-> "Err", kind |-> "PosOverflow"]
             ELSE ParseDigits(s, i + 1, m.val)

\* <u64 as FromStr>::from_str: an optional '+', then one or more digits
ParseU64(s) ==
    IF Len(s) = 0 THEN [t |-> "Err", kind |-> "Empty"]
    ELSE IF Len(s) = 1 /\ s[1] \in {"+", "-"}
         THEN [t |-> "Err", kind |-> "InvalidDigit"]
    ELSE IF s[1] = "+" THEN ParseDigits(s, 2, Zero64)
    ELSE ParseDigits(s, 1, Zero64)

\* <NonZeroU64 as FromStr>::from_str: the u64 parse, then zero is refused
ParseNonZeroU64(s) ==
    LET r == ParseU64(s)
    IN  IF r.t = "Ok" /\ r.val = Zero64 THEN [t |-> "Err", kind |-> "Zero"]
        ELSE r

(***************************************************************************)
(* Identifiers: the id_u64! family (GuildId, ChannelId, ...).  An instance *)
(* is [val |-> the wrapped NonZeroU64]; an operation that can fail returns *)
(* [t |-> "Ok", val |-> ...], [t |-> "Err", kind |-> ...] or, for a panic, *)
(* [t |-> "Panic"].                                                        *)
(***************************************************************************)
None == [t |-> "None"]

Ok(v) == [t |-> "Ok", val |-> v]

Err(k) == [t |-> "Err", kind |-> k]

Panic == [t |-> "Panic"]

\* NonZeroU64::new
NonZeroU64_new(id) == IF id # Zero64 THEN Ok(id) ELSE None

\* new without the zero check (the wrapped value taken as given)
new_unchecked(id) == Ok(id)

\* $name::new: panics on zero
new(id) ==
    LET inner == NonZeroU64_new(id)
    IN  IF inner.t = "Ok" THEN Ok(inner.val) ELSE Panic

\* $name::get
get(x) == x.val

\* Default for $name: NonZeroU64::MIN
default == Ok(One64)

\* From<u64> for $name
from_u64(id) == new(id)

\* From<NonZeroU64> for $name: the argument is nonzero by its type
from_nonzero(id) == Ok(id)

\* from_str parsing a plain u64 and wrapping it unchecked
from_str_u64(s) == ParseU64(s)

\* FromStr for $name (forward_fromstr_impl with the InnerId wrapper): the
\* parse target is the wrapped NonZeroU64
from_str(s) == ParseNonZeroU64(s)

\* the order of the values read as i64: bit 63 set sorts first
cmp_as_i64(x, y) ==
    IF FitsI64(x.val) = FitsI64(y.val) THEN Cmp64(x.val, y.val)
    ELSE IF FitsI64(x.val) THEN 1 ELSE -1

\* derive(PartialOrd, Ord) on $name(InnerId(NonZeroU64)): the order of the
\* one wrapped field
cmp(x, y) == Cmp64(x.val, y.val)

\* visit_u64 refusing u64::MAX, as its messages word it, instead of zero
visit_u64_non_max(value) ==
    IF value # Max64 THEN Ok(value) ELSE Err("custom")

\* SnowflakeVisitor::visit_u64
visit_u64(value) ==
    LET inner == NonZeroU64_new(value)
    IN  IF inner.t = "Ok" THEN Ok(inner.val) ELSE Err("custom")

\* visit_i64 with an `as u64` cast in place of u64::try_from
visit_i64_cast(value) ==
    IF value.neg THEN Ok(Sub64(Zero64, value.n)) ELSE Ok(value.n)

\* SnowflakeVisitor::visit_i64: u64::try_from refuses a negative value
visit_i64(value) ==
    IF value.neg THEN Err("custom") ELSE visit_u64(value.n)

\* SnowflakeVisitor::visit_str
visit_str(value) ==
    LET r == ParseNonZeroU64(value)
    IN  IF r.t = "Ok" THEN Ok(r.val) ELSE Err("custom")

\* InnerId::deserialize: deserialize_any hands the visitor the shape found on
\* the wire; a shape the visitor has no method for is an invalid-type error
deserialize(shape) ==
    CASE shape.t = "str" -> visit_str(shape.s)
      [] shape.t = "u64" -> visit_u64(shape.n)
      [] shape.t = "i64" -> visit_i64(shape)
      [] OTHER -> Err("invalid_type")

\* serialize emitting the number itself (serialize_u64)
serialize_u64(x) == [t |-> "u64", n |-> x.val]

\* InnerId::serialize: collect_str of the wrapped number
serialize(x) == [t |-> "str", s |-> ToDec(x.val)]

\* The containers of tests::test_id_serde: the id itself, struct S {id:
\* InnerId} and struct Opt {id: Option<GuildId>}; x is an instance or None
serialize_as(w, x) ==
    CASE w = "GuildId" -> serialize(x)
      [] w = "S" -> [t |-> "obj", id |-> serialize(x)]
      [] w = "Opt" -> [t |-> "obj",
                       id |-> IF x = None THEN [t |-> "null"] ELSE serialize(x)]

deserialize_as(w, json) ==
    CASE w = "GuildId" -> deserialize(json)
      [] w = "S" -> IF json.t = "obj" THEN deserialize(json.id)
                    ELSE Err("invalid_type")
      [] w = "Opt" -> IF json.t # "obj" THEN Err("invalid_type")
                      ELSE IF json.id.t = "null" THEN [t |-> "OkNone"]
                      ELSE deserialize(json.id)

(***************************************************************************)
(* Timestamp, the collaborator created_at hands the value to.              *)
(***************************************************************************)
\* 1420070400000, the first millisecond of 2015
DISCORD_EPOCH == <<700416, 338571, 0>>

\* Timestamp::from_discord_id: milliseconds since the Unix epoch
from_discord_id(id) == [t |-> "Time", ms |-> Add64(Shr22(id), DISCORD_EPOCH)]

\* Timestamp::unix_timestamp: whole seconds
unix_timestamp(ts) == DivMod(DivMod(ts.ms, 250).q, 4).q

Pad2(n) == <<Digits[(n \div 10) + 1], Digits[(n % 10) + 1]>>

Pad3(n) == <<Digits[(n \div 100) + 1]>> \o Pad2(n % 100)

Pad4(n) == Pad2(n \div 100) \o Pad2(n % 100)

\* the calendar date of day z - 719468 of the Unix era (proleptic Gregorian)
CivilFromDays(z) ==
    LET era == z \div 146097
        doe == z - era * 146097
        yoe == (doe - (doe \div 1460) + (doe \div 36524) - (doe \div 146096)) \div 365
        doy == doe - (365 * yoe + (yoe \div 4) - (yoe \div 100))
        mp == (5 * doy + 2) \div 153
        d == doy - ((153 * mp + 2) \div 5) + 1
        m == IF mp < 10 THEN mp + 3 ELSE mp - 9
        y == yoe + era * 400 + (IF m <= 2 THEN 1 ELSE 0)
    IN  [y |-> y, m |-> m, d |-> d]

\* Display for Timestamp: RFC 3339 in UTC with milliseconds
to_string(ts) ==
    LET a == DivMod(ts.ms, 250)
        b == DivMod(a.q, 4)
        sec == DivMod(b.q, 60)
        min == DivMod(sec.q, 60)
        hour == DivMod(min.q, 24)
        date == CivilFromDays(hour.q[1] + 719468)
    IN  Pad4(date.y) \o <<"-">> \o Pad2(date.m) \o <<"-">> \o Pad2(date.d)
            \o <<"T">> \o Pad2(hour.r) \o <<":">> \o Pad2(min.r) \o <<":">>
            \o Pad2(sec.r) \o <<".">> \o Pad3(b.r * 250 + a.r) \o <<"Z">>

\* created_at shifting the value before handing it over
created_at_shifted(x) == from_discord_id(Shr22(get(x)))

\* $name::created_at
created_at(x) == from_discord_id(get(x))

(***************************************************************************)
(* Inputs.                                                                 *)
(***************************************************************************)
\* 175928847299117063, the id of Discord's snowflake documentation
DocSnowflake == <<131079, 1665796, 10000>>

\* u64 values: around zero, around each limb boundary, around i64::MAX and
\* up to u64::MAX
U64Samples ==
    {<<x, y, z>> : x \in (0..SmallMax) \cup {Base - 1},
                   y \in {0, Base - 1},
                   z \in {0, SignLimb - 1, SignLimb, TopBase - 1}}
        \cup {DocSnowflake}

\* i64 values as sign and magnitude: 0..i64::MAX and -1..i64::MIN
I64Samples ==
    {[t |-> "i64", neg |-> FALSE, n |-> v] : v \in {u \in U64Samples : FitsI64(u)}}
        \cup {[t |-> "i64", neg |-> TRUE, n |-> v] :
                v \in {u \in U64Samples : u # Zero64 /\ (FitsI64(u) \/ u = <<0, 0, SignLimb>>)}}

Alphabet == {"0", "7", "+", "-", "a"}

ShortStrings == UNION {[1..n -> Alphabet] : n \in 0..MaxStrLen}

DecStrings == {ToDec(v) : v \in U64Samples}

\* strings: the short ones, the decimal text of every sampled number, that
\* text behind a sign or a zero or before a letter, and numerals past u64::MAX
StrSamples ==
    ShortStrings \cup DecStrings
        \cup {<<c>> \o s : c \in {"+", "-", "0"}, s \in DecStrings}
        \cup {Append(s, "a") : s \in DecStrings}
        \cup {S(<<1, 8, 4, 4, 6, 7, 4, 4, 0, 7, 3, 7, 0, 9, 5, 5, 1, 6, 1, 6>>),
              S(<<9, 9, 9, 9, 9, 9, 9, 9, 9, 9, 9, 9, 9, 9, 9, 9, 9, 9, 9, 9>>),
              S(<<1, 0, 0, 0, 0, 0, 0, 0, 0, 0, 0, 0, 0, 0, 0, 0, 0, 0, 0, 0, 0>>)}

\* what a wire format may hand the visitor
Shapes ==
    {[t |-> "str", s |-> s] : s \in StrSamples}
        \cup {[t |-> "u64", n |-> v] : v \in U64Samples}
        \cup I64Samples
        \cup {[t |-> "null"], [t |-> "bool"]}

Containers == {"GuildId", "S", "Opt"}

(***************************************************************************)
(* The identifier operations as steps.  kept is the identifier the caller  *)
(* holds (None before the first), out the last call: its name, argument    *)
(* and result.  The caller looks at a result (Take) before the next call,  *)
(* and nothing follows a panic.                                            *)
(***************************************************************************)
Call(op, arg, res) == [op |-> op, arg |-> arg, res |-> res]

Idle == out = None

\* the calls that make an identifier
Constructors ==
    {"new", "from_u64", "from_nonzero", "default", "from_str", "deserialize"}

IdNew(v) ==
    /\ Idle
    /\ out' = Call("new", [t |-> "u64", n |-> v], new(v))
    /\ UNCHANGED <<kept, permVars, editVars>>

IdFromU64(v) ==
    /\ Idle
    /\ out' = Call("from_u64", [t |-> "u64", n |-> v], from_u64(v))
    /\ UNCHANGED <<kept, permVars, editVars>>

IdFromNonZero(v) ==
    /\ Idle
    /\ v # Zero64
    /\ out' = Call("from_nonzero", [t |-> "u64", n |-> v], from_nonzero(v))
    /\ UNCHANGED <<kept, permVars, editVars>>

IdDefault ==
    /\ Idle
    /\ out' = Call("default", None, default)
    /\ UNCHANGED <<kept, permVars, editVars>>

IdFromStr(s) ==
    /\ Idle
    /\ out' = Call("from_str", [t |-> "str", s |-> s], from_str(s))
    /\ UNCHANGED <<kept, permVars, editVars>>

IdDeserialize(shape) ==
    /\ Idle
    /\ out' = Call("deserialize", shape, deserialize(shape))
    /\ UNCHANGED <<kept, permVars, editVars>>

\* serialize the kept identifier inside container w (an Opt may hold None)
IdSerialize(w) ==
    /\ Idle
    /\ kept # None \/ w = "Opt"
    /\ out' = Call("serialize", [t |-> "in", w |-> w], serialize_as(w, kept))
    /\ UNCHANGED <<kept, permVars, editVars>>

\* deserialize what the last step serialized, into the same container type
IdRoundTrip ==
    /\ out # None
    /\ out.op = "serialize"
    /\ out' = Call("roundtrip", out.res, deserialize_as(out.arg.w, out.res))
    /\ UNCHANGED <<kept, permVars, editVars>>

IdCreatedAt ==
    /\ Idle
    /\ kept # None
    /\ out' = Call("created_at", kept, created_at(kept))
    /\ UNCHANGED <<kept, permVars, editVars>>

\* compare the kept identifier with the one just made
IdCmp ==
    /\ out # None
    /\ out.op \in Constructors
    /\ out.res.t = "Ok"
    /\ kept # None
    /\ out' = Call("cmp", [t |-> "pair", a |-> kept, b |-> out.res],
                   [t |-> "Ord", ord |-> cmp(kept, out.res)])
    /\ UNCHANGED <<kept, permVars, editVars>>

\* the caller takes the result: a new identifier becomes the kept one
Take ==
    /\ out # None
    /\ out.res.t # "Panic"
    /\ kept' = IF out.op = "cmp" THEN out.arg.b
               ELSE IF out.op \in Constructors /\ out.res.t = "Ok" THEN out.res
               ELSE kept
    /\ out' = None
    /\ UNCHANGED <<permVars, editVars>>

Init ==
    /\ kept = None
    /\ out = None
    /\ perm = [bits |-> {}]
    /\ pout = None
    /\ steps = 0
    /\ msg = <<>>
    /\ eout = None

NextId ==
    \/ \E v \in U64Samples : IdNew(v)
    \/ \E v \in U64Samples : IdFromU64(v)
    \/ \E v \in U64Samples : IdFromNonZero(v)
    \/ IdDefault
    \/ \E s \in StrSamples : IdFromStr(s)
    \/ \E shape \in Shapes : IdDeserialize(shape)
    \/ \E w \in Containers : IdSerialize(w)
    \/ IdRoundTrip
    \/ IdCreatedAt
    \/ IdCmp
    \/ Take

SpecId == Init /\ [][NextId]_vars

(***************************************************************************)
(* Properties of the identifiers, checked under SpecId.                    *)
(***************************************************************************)
\* the identifier a finished call returned, if it returned one
Made ==
    IF out # None /\ out.op \in (Constructors \cup {"roundtrip"}) /\ out.res.t = "Ok"
    THEN {out.res} ELSE {}

\* every identifier in the state
Instances == Made \cup (IF kept # None THEN {kept} ELSE {})

\* the text after an optional leading '+'
Unsigned(s) == IF Len(s) > 0 /\ s[1] = "+" THEN Tail(s) ELSE s

RECURSIVE StripZeros(_)
StripZeros(s) == IF Len(s) > 1 /\ s[1] = "0" THEN StripZeros(Tail(s)) ELSE s

\* digit strings without leading zeros: a <= b as numbers
RECURSIVE LexLe(_, _)
LexLe(a, b) ==
    IF Len(a) = 0 THEN TRUE
    ELSE IF a[1] # b[1] THEN DigitVal(a[1]) < DigitVal(b[1])
    ELSE LexLe(Tail(a), Tail(b))

DecLe(a, b) == Len(a) < Len(b) \/ (Len(a) = Len(b) /\ LexLe(a, b))

MaxText == S(<<1, 8, 4, 4, 6, 7, 4, 4, 0, 7, 3, 7, 0, 9, 5, 5, 1, 6, 1, 5>>)

\* s is a decimal numeral of a u64: one or more digits, optionally behind a
\* '+' as Rust's integer grammar allows, naming a value of at most u64::MAX
IsNumeral(s) ==
    LET d == Unsigned(s)
    IN  /\ Len(d) > 0
        /\ \A i \in 1..Len(d) : IsDigit(d[i])
        /\ DecLe(StripZeros(d), MaxText)

IsZeroNumeral(s) == IsNumeral(s) /\ StripZeros(Unsigned(s)) = <<"0">>

\* a wire shape that must not become an identifier
BadShape(shape) ==
    \/ shape.t = "u64" /\ shape.n = Zero64
    \/ shape.t = "i64" /\ (shape.neg \/ shape.n = Zero64)
    \/ shape.t = "str" /\ (~IsNumeral(shape.s) \/ IsZeroNumeral(shape.s))

\* C1: no construction path (new, From<u64>, From<NonZeroU64>, Default,
\* FromStr, deserialization from a string, an unsigned or a signed integer)
\* yields an identifier whose get() is zero.
C1_NeverZero == \A x \in Instances : IsU64(get(x)) /\ get(x) # Zero64

\* an identifier is held and parsing "0" has just been refused
C1_Witness ==
    /\ kept # None
    /\ out # None /\ out.op = "from_str" /\ out.arg.s = <<"0">> /\ out.res.t = "Err"

\* C2: new(v) of a nonzero v returns an instance with get() = v; new(0)
\* panics and returns no instance.
C2_New ==
    (out # None /\ out.op = "new") =>
        IF out.arg.n = Zero64 THEN out.res = Panic
        ELSE out.res.t = "Ok" /\ get(out.res) = out.arg.n

\* new(0) has panicked while an identifier was held
C2_Witness == kept # None /\ out # None /\ out.op = "new" /\ out.res = Panic

\* C3: deserializing never panics, and zero in any shape, a negative signed
\* integer and a string that is no u64 numeral each give an error and no
\* instance.
C3_BadWireIsError ==
    (out # None /\ out.op = "deserialize") =>
        /\ out.res.t \in {"Ok", "Err"}
        /\ BadShape(out.arg) => out.res.t = "Err"

\* i64::MIN arrived on the wire and was refused
C3_Witness ==
    /\ out # None /\ out.op = "deserialize"
    /\ out.arg = [t |-> "i64", neg |-> TRUE, n |-> <<0, 0, SignLimb>>]
    /\ out.res.t = "Err"

\* C4: for a nonzero v the decimal string of v, the unsigned integer v and,
\* when v fits an i64, the signed integer v all deserialize to the
\* identifier with get() = v.
C4_ShapesConverge ==
    (out # None /\ out.op = "deserialize") =>
        /\ (out.arg.t = "u64" /\ out.arg.n # Zero64) => out.res = Ok(out.arg.n)
        /\ (out.arg.t = "i64" /\ ~out.arg.neg /\ out.arg.n # Zero64) =>
               out.res = Ok(out.arg.n)
        /\ out.arg.t = "str" =>
               \A v \in U64Samples \ {Zero64} :
                   out.arg.s = ToDec(v) => out.res = Ok(v)

\* the string "18446744073709551615" became the identifier u64::MAX
C4_Witness ==
    /\ out # None /\ out.op = "deserialize"
    /\ out.arg = [t |-> "str", s |-> MaxText]
    /\ out.res = Ok(Max64)

\* the JSON value holding the identifier inside a container
Payload(json) == IF json.t = "obj" THEN json.id ELSE json

\* json is the string of the base-10 digits of v
IsDecimalOf(json, v) ==
    /\ json.t = "str"
    /\ Len(json.s) > 0
    /\ \A i \in 1..Len(json.s) : IsDigit(json.s[i])
    /\ json.s = StripZeros(json.s)
    /\ ParseDigits(json.s, 1, Zero64) = Ok(v)

\* C5: serialize(id) is a JSON string of the base-10 digits of id.get(),
\* never a number, and deserialize(serialize(id)) = id, also inside an
\* Option and a struct field.
C5_RoundTrip ==
    /\ (out # None /\ out.op = "serialize" /\ kept # None) =>
           IsDecimalOf(Payload(out.res), get(kept))
    /\ (out # None /\ out.op = "roundtrip") =>
           IF kept = None THEN out.res.t = "OkNone"
           ELSE IsDecimalOf(Payload(out.arg), get(kept)) /\ out.res = kept

\* u64::MAX went through an Option field and came back
C5_Witness ==
    /\ kept = Ok(Max64)
    /\ out # None /\ out.op = "roundtrip"
    /\ out.arg = [t |-> "obj", id |-> [t |-> "str", s |-> MaxText]]
    /\ out.res = kept

\* C6: created_at is the instant value >> 22 milliseconds after the
\* platform epoch 1420070400000; for 175928847299117063 that is Unix
\* second 1462015105, millisecond 1462015105796,
\* "2016-04-30T11:18:25.796Z".
C6_CreatedAt ==
    (out # None /\ out.op = "created_at") =>
        LET off == Sub64(out.res.ms, DISCORD_EPOCH)
        IN  /\ ToDec(DISCORD_EPOCH) = S(<<1, 4, 2, 0, 0, 7, 0, 4, 0, 0, 0, 0, 0>>)
            /\ off[3] = 0
            /\ Cmp64(out.res.ms, DISCORD_EPOCH) >= 0
            /\ <<off[1], off[2]>> = <<get(kept)[2], get(kept)[3]>>
            /\ ToDec(get(kept)) = S(<<1, 7, 5, 9, 2, 8, 8, 4, 7, 2, 9, 9, 1, 1, 7, 0, 6, 3>>) =>
                   /\ ToDec(out.res.ms) = S(<<1, 4, 6, 2, 0, 1, 5, 1, 0, 5, 7, 9, 6>>)
                   /\ ToDec(unix_timestamp(out.res)) = S(<<1, 4, 6, 2, 0, 1, 5, 1, 0, 5>>)
                   /\ to_string(out.res) =
                          S(<<2, 0, 1, 6>>) \o <<"-">> \o S(<<0, 4>>) \o <<"-">> \o S(<<3, 0>>)
                              \o <<"T">> \o S(<<1, 1>>) \o <<":">> \o S(<<1, 8>>) \o <<":">>
                              \o S(<<2, 5>>) \o <<".">> \o S(<<7, 9, 6>>) \o <<"Z">>

\* created_at of the documentation's snowflake has been taken
C6_Witness ==
    /\ kept = Ok(DocSnowflake)
    /\ out # None /\ out.op = "created_at"

\* C7: identifiers are totally ordered by their value, a <= b iff
\* a.get() <= b.get(), and the order agrees with creation time:
\* a.get() <= b.get() implies created_at(a) <= created_at(b).
C7_OrderedByValue ==
    (out # None /\ out.op = "cmp") =>
        LET a == out.arg.a
            b == out.arg.b
            le == DecLe(ToDec(get(a)), ToDec(get(b)))
            ge == DecLe(ToDec(get(b)), ToDec(get(a)))
        IN  /\ out.res.ord \in {-1, 0, 1}
            /\ out.res.ord <= 0 <=> le
            /\ out.res.ord >= 0 <=> ge
            /\ out.res.ord = 0 <=> a = b
            /\ le => DecLe(ToDec(created_at(a).ms), ToDec(created_at(b).ms))

\* i64::MAX has been compared with the larger 2^63
C7_Witness ==
    /\ out # None /\ out.op = "cmp"
    /\ out.arg.a = Ok(<<Base - 1, Base - 1, SignLimb - 1>>)
    /\ out.arg.b = Ok(<<0, 0, SignLimb>>)
    /\ out.res.ord = -1

(***************************************************************************)
(* Permissions: a u64 of flags, kept as [bits |-> the set of the positions *)
(* of its set bits].                                                       *)
(***************************************************************************)
AllOnes == 0..63

\* the table handed to generate_permissions!, in declaration order
Flags == <<
    [upper |-> "CREATE_INSTANT_INVITE", name |-> "Create Invites", bit |-> 0, deprecated |-> FALSE],
    [upper |-> "KICK_MEMBERS", name |-> "Kick Members", bit |-> 1, deprecated |-> FALSE],
    [upper |-> "BAN_MEMBERS", name |-> "Ban Members", bit |-> 2, deprecated |-> FALSE],
    [upper |-> "ADMINISTRATOR", name |-> "Administrator", bit |-> 3, deprecated |-> FALSE],
    [upper |-> "MANAGE_CHANNELS", name |-> "Manage Channels", bit |-> 4, deprecated |-> FALSE],
    [upper |-> "MANAGE_GUILD", name |-> "Manage Guild", bit |-> 5, deprecated |-> FALSE],
    [upper |-> "ADD_REACTIONS", name |-> "Add Reactions", bit |-> 6, deprecated |-> FALSE],
    [upper |-> "VIEW_AUDIT_LOG", name |-> "View Audit Log", bit |-> 7, deprecated |-> FALSE],
    [upper |-> "PRIORITY_SPEAKER", name |-> "Priority Speaker", bit |-> 8, deprecated |-> FALSE],
    [upper |-> "STREAM", name |-> "Stream", bit |-> 9, deprecated |-> FALSE],
    [upper |-> "VIEW_CHANNEL", name |-> "View Channel", bit |-> 10, deprecated |-> FALSE],
    [upper |-> "SEND_MESSAGES", name |-> "Send Messages", bit |-> 11, deprecated |-> FALSE],
    [upper |-> "SEND_TTS_MESSAGES", name |-> "Send TTS Messages", bit |-> 12, deprecated |-> FALSE],
    [upper |-> "MANAGE_MESSAGES", name |-> "Manage Messages", bit |-> 13, deprecated |-> FALSE],
    [upper |-> "EMBED_LINKS", name |-> "Embed Links", bit |-> 14, deprecated |-> FALSE],
    [upper |-> "ATTACH_FILES", name |-> "Attach Files", bit |-> 15, deprecated |-> FALSE],
    [upper |-> "READ_MESSAGE_HISTORY", name |-> "Read Message History", bit |-> 16, deprecated |-> FALSE],
    [upper |-> "MENTION_EVERYONE", name |-> "Mention @everyone, @here, and All Roles", bit |-> 17, deprecated |-> FALSE],
    [upper |-> "USE_EXTERNAL_EMOJIS", name |-> "Use External Emojis", bit |-> 18, deprecated |-> FALSE],
    [upper |-> "VIEW_GUILD_INSIGHTS", name |-> "View Guild Insights", bit |-> 19, deprecated |-> FALSE],
    [upper |-> "CONNECT", name |-> "Connect", bit |-> 20, deprecated |-> FALSE],
    [upper |-> "SPEAK", name |-> "Speak", bit |-> 21, deprecated |-> FALSE],
    [upper |-> "MUTE_MEMBERS", name |-> "Mute Members", bit |-> 22, deprecated |-> FALSE],
    [upper |-> "DEAFEN_MEMBERS", name |-> "Deafen Members", bit |-> 23, deprecated |-> FALSE],
    [upper |-> "MOVE_MEMBERS", name |-> "Move Members", bit |-> 24, deprecated |-> FALSE],
    [upper |-> "USE_VAD", name |-> "Use Voice Activity", bit |-> 25, deprecated |-> FALSE],
    [upper |-> "CHANGE_NICKNAME", name |-> "Change Nickname", bit |-> 26, deprecated |-> FALSE],
    [upper |-> "MANAGE_NICKNAMES", name |-> "Manage Nicknames", bit |-> 27, deprecated |-> FALSE],
    [upper |-> "MANAGE_ROLES", name |-> "Manage Roles", bit |-> 28, deprecated |-> FALSE],
    [upper |-> "MANAGE_WEBHOOKS", name |-> "Manage Webhooks", bit |-> 29, deprecated |-> FALSE],
    [upper |-> "MANAGE_GUILD_EXPRESSIONS", name |-> "Manage Guild Expressions", bit |-> 30, deprecated |-> FALSE],
    [upper |-> "MANAGE_EMOJIS_AND_STICKERS", name |-> "Manage Emojis and Stickers", bit |-> 30, deprecated |-> TRUE],
    [upper |-> "USE_APPLICATION_COMMANDS", name |-> "Use Application Commands", bit |-> 31, deprecated |-> FALSE],
    [upper |-> "REQUEST_TO_SPEAK", name |-> "Request to Speak", bit |-> 32, deprecated |-> FALSE],
    [upper |-> "MANAGE_EVENTS", name |-> "Manage Events", bit |-> 33, deprecated |-> FALSE],
    [upper |-> "MANAGE_THREADS", name |-> "Manage Threads", bit |-> 34, deprecated |-> FALSE],
    [upper |-> "CREATE_PUBLIC_THREADS", name |-> "Create Public Threads", bit |-> 35, deprecated |-> FALSE],
    [upper |-> "CREATE_PRIVATE_THREADS", name |-> "Create Private Threads", bit |-> 36, deprecated |-> FALSE],
    [upper |-> "USE_EXTERNAL_STICKERS", name |-> "Use External Stickers", bit |-> 37, deprecated |-> FALSE],
    [upper |-> "SEND_MESSAGES_IN_THREADS", name |-> "Send Messages in Threads", bit |-> 38, deprecated |-> FALSE],
    [upper |-> "USE_EMBEDDED_ACTIVITIES", name |-> "Use Embedded Activities", bit |-> 39, deprecated |-> FALSE],
    [upper |-> "MODERATE_MEMBERS", name |-> "Moderate Members", bit |-> 40, deprecated |-> FALSE],
    [upper |-> "VIEW_CREATOR_MONETIZATION_ANALYTICS", name |-> "View Creator Monetization Analytics", bit |-> 41, deprecated |-> FALSE],
    [upper |-> "USE_SOUNDBOARD", name |-> "Use Soundboard", bit |-> 42, deprecated |-> FALSE],
    [upper |-> "CREATE_GUILD_EXPRESSIONS", name |-> "Create Guild Expressions", bit |-> 43, deprecated |-> FALSE],
    [upper |-> "CREATE_EVENTS", name |-> "Create Events", bit |-> 44, deprecated |-> FALSE],
    [upper |-> "USE_EXTERNAL_SOUNDS", name |-> "Use External Sounds", bit |-> 45, deprecated |-> FALSE],
    [upper |-> "SEND_VOICE_MESSAGES", name |-> "Send Voice Messages", bit |-> 46, deprecated |-> FALSE],
    [upper |-> "SET_VOICE_CHANNEL_STATUS", name |-> "Set Voice Channel status", bit |-> 48, deprecated |-> FALSE],
    [upper |-> "SEND_POLLS", name |-> "Send Polls", bit |-> 49, deprecated |-> FALSE],
    [upper |-> "USE_EXTERNAL_APPS", name |-> "Use External Apps", bit |-> 50, deprecated |-> FALSE]
>>

FlagIndex(upper) == CHOOSE i \in 1..Len(Flags) : Flags[i].upper = upper

\* Permissions::$perm_upper
Flag(upper) == [bits |-> {Flags[FlagIndex(upper)].bit}]

\* Permissions::bits
bits(p) == p.bits

\* Permissions::all: every declared flag
all == [bits |-> {Flags[i].bit : i \in 1..Len(Flags)}]

\* Permissions::from_bits_retain: the bits as given
from_bits_retain(raw) == [bits |-> raw]

\* Permissions::from_bits_truncate: undeclared bits are dropped
from_bits_truncate(raw) == [bits |-> raw \cap bits(all)]

\* Default for Permissions
empty == [bits |-> {}]

\* Permissions::contains
contains(p, other) == bits(other) \subseteq bits(p)

\* self | other
union(p, other) == [bits |-> bits(p) \cup bits(other)]

\* self & other
intersection(p, other) == [bits |-> bits(p) \cap bits(other)]

\* self & !other with the complement left unmasked and joined, not met
difference_unmasked(p, other) == [bits |-> bits(p) \cup (AllOnes \ bits(other))]

\* self & !other
difference(p, other) == [bits |-> bits(p) \ bits(other)]

\* self ^ other
toggle(p, other) ==
    [bits |-> (bits(p) \ bits(other)) \cup (bits(other) \ bits(p))]

\* Permissions::$perm_lower of the i-th table entry
has(p, i) == contains(p, [bits |-> {Flags[i].bit}])

\* get_permission_names without the is_deprecated test
RECURSIVE NamesFromAll(_, _)
NamesFromAll(p, i) ==
    IF i > Len(Flags) THEN <<>>
    ELSE (IF has(p, i) THEN <<Flags[i].name>> ELSE <<>>) \o NamesFromAll(p, i + 1)

get_permission_names_all(p) == NamesFromAll(p, 1)

\* the macro's repetition from the i-th table entry on: push the name when
\* the entry is not deprecated and its predicate holds
RECURSIVE NamesFrom(_, _)
NamesFrom(p, i) ==
    IF i > Len(Flags) THEN <<>>
    ELSE (IF ~Flags[i].deprecated /\ has(p, i) THEN <<Flags[i].name>> ELSE <<>>)
             \o NamesFrom(p, i + 1)

\* Permissions::get_permission_names
get_permission_names(p) == NamesFrom(p, 1)

\* the loop of fmt with a comma before every name but the first
RECURSIVE WriteOxford(_, _)
WriteOxford(names, i) ==
    LET total == Len(names)
    IN  IF i >= total THEN ""
        ELSE (IF i > 0 THEN ", " ELSE "")
                 \o (IF total > 1 /\ i = total - 1 THEN "and " ELSE "")
                 \o names[i + 1] \o WriteOxford(names, i + 1)

fmt_oxford(p) == WriteOxford(get_permission_names(p), 0)

\* the loop of fmt with the conjunction before every last name
RECURSIVE WriteAndAlways(_, _)
WriteAndAlways(names, i) ==
    LET total == Len(names)
    IN  IF i >= total THEN ""
        ELSE (IF i > 0 /\ i # total - 1 THEN ", " ELSE "")
                 \o (IF i = total - 1 THEN " and " ELSE "")
                 \o names[i + 1] \o WriteAndAlways(names, i + 1)

fmt_and_always(p) == WriteAndAlways(get_permission_names(p), 0)

\* the loop of fmt from the name at index i (counted from 0) on: what the
\* write_str calls append
RECURSIVE Write(_, _)
Write(names, i) ==
    LET total == Len(names)
    IN  IF i >= total THEN ""
        ELSE (IF i > 0 /\ i # total - 1 THEN ", " ELSE "")
                 \o (IF total > 1 /\ i = total - 1 THEN " and " ELSE "")
                 \o names[i + 1] \o Write(names, i + 1)

\* Display for Permissions
fmt(p) == Write(get_permission_names(p), 0)

\* the u64 behind a set: the bit positions that are 1 in the number v
BitsOf(v) == {b \in AllOnes : (v[(b \div 22) + 1] \div (2 ^ (b % 22))) % 2 = 1}

\* the part of the number that the bits 22*j .. 22*j+21 of bs make up
RECURSIVE LimbSum(_, _, _)
LimbSum(bs, j, k) ==
    IF k > 21 THEN 0
    ELSE (IF 22 * j + k \in bs THEN 2 ^ k ELSE 0) + LimbSum(bs, j, k + 1)

\* Permissions::bits as a number
bits_u64(p) == <<LimbSum(bits(p), 0, 0), LimbSum(bits(p), 1, 0), LimbSum(bits(p), 2, 0)>>

\* serialize emitting the number itself
Permissions_serialize_u64(p) == [t |-> "u64", n |-> bits_u64(p)]

\* Serialize for Permissions: collect_str of self.bits()
Permissions_serialize(p) == [t |-> "str", s |-> ToDec(bits_u64(p))]

\* StrOrInt::deserialize: a string is kept as text, an integer as a number,
\* any other shape is an invalid-type error
StrOrInt_deserialize(shape) ==
    CASE shape.t = "str" -> Ok([t |-> "String", s |-> shape.s])
      [] shape.t = "u64" -> Ok([t |-> "Unsigned", n |-> shape.n])
      [] shape.t = "i64" -> Ok([t |-> "Signed", neg |-> shape.neg, n |-> shape.n])
      [] OTHER -> Err("invalid_type")

\* StrOrInt::parse: text is lexed as a base-10 u64, a negative signed value
\* is out of range, an unsigned value passes through
StrOrInt_parse(val) ==
    CASE val.t = "String" -> LET r == ParseU64(val.s)
                             IN  IF r.t = "Ok" THEN r ELSE Err("ParseError")
      [] val.t = "Signed" -> IF val.neg THEN Err("RangeError") ELSE Ok(val.n)
      [] OTHER -> Ok(val.n)

\* deserialize with from_bits in place of from_bits_truncate: a number with
\* an undeclared bit is refused
Permissions_deserialize_strict(shape) ==
    LET val == StrOrInt_deserialize(shape)
    IN  IF val.t = "Err" THEN val
        ELSE LET n == StrOrInt_parse(val.val)
             IN  IF n.t = "Err" THEN Err("custom")
                 ELSE IF BitsOf(n.val) \subseteq bits(all)
                      THEN Ok(from_bits_truncate(BitsOf(n.val)))
                      ELSE Err("custom")

\* deserialize with the parse error replaced by the default set
Permissions_deserialize_lenient(shape) ==
    LET val == StrOrInt_deserialize(shape)
    IN  IF val.t = "Err" THEN val
        ELSE LET n == StrOrInt_parse(val.val)
             IN  IF n.t = "Err" THEN Ok(empty)
                 ELSE Ok(from_bits_truncate(BitsOf(n.val)))

\* Deserialize for Permissions
Permissions_deserialize(shape) ==
    LET val == StrOrInt_deserialize(shape)
    IN  IF val.t = "Err" THEN val
        ELSE LET n == StrOrInt_parse(val.val)
             IN  IF n.t = "Err" THEN Err("custom")
                 ELSE Ok(from_bits_truncate(BitsOf(n.val)))

UnionOf(uppers) == UNION {bits(Flag(u)) : u \in uppers}

PRESET_GENERAL ==
    from_bits_truncate(UnionOf({"ADD_REACTIONS", "ATTACH_FILES", "CHANGE_NICKNAME",
        "CONNECT", "CREATE_INSTANT_INVITE", "EMBED_LINKS", "MENTION_EVERYONE",
        "READ_MESSAGE_HISTORY", "VIEW_CHANNEL", "SEND_MESSAGES", "SEND_TTS_MESSAGES",
        "SPEAK", "USE_EXTERNAL_EMOJIS", "USE_VAD"}))

\* the text preset with CONNECT copied over from the general one
PRESET_TEXT_with_connect ==
    from_bits_truncate(UnionOf({"ADD_REACTIONS", "ATTACH_FILES", "CHANGE_NICKNAME",
        "CONNECT", "CREATE_INSTANT_INVITE", "EMBED_LINKS", "MENTION_EVERYONE",
        "READ_MESSAGE_HISTORY", "VIEW_CHANNEL", "SEND_MESSAGES", "SEND_TTS_MESSAGES",
        "USE_EXTERNAL_EMOJIS"}))

PRESET_TEXT ==
    from_bits_truncate(UnionOf({"ADD_REACTIONS", "ATTACH_FILES", "CHANGE_NICKNAME",
        "CREATE_INSTANT_INVITE", "EMBED_LINKS", "MENTION_EVERYONE",
        "READ_MESSAGE_HISTORY", "VIEW_CHANNEL", "SEND_MESSAGES", "SEND_TTS_MESSAGES",
        "USE_EXTERNAL_EMOJIS"}))

PRESET_VOICE == from_bits_truncate(UnionOf({"CONNECT", "SPEAK", "USE_VAD"}))

\* Permissions::dm_permissions
dm_permissions ==
    [bits |-> UnionOf({"ADD_REACTIONS", "STREAM", "VIEW_CHANNEL", "SEND_MESSAGES",
        "SEND_TTS_MESSAGES", "EMBED_LINKS", "ATTACH_FILES", "READ_MESSAGE_HISTORY",
        "MENTION_EVERYONE", "USE_EXTERNAL_EMOJIS", "CONNECT", "SPEAK", "USE_VAD",
        "USE_APPLICATION_COMMANDS", "USE_EXTERNAL_STICKERS", "SEND_VOICE_MESSAGES",
        "SEND_POLLS", "USE_EXTERNAL_APPS"})]

(***************************************************************************)
(* Permission inputs and steps.  perm is the set at hand, pout the last    *)
(* call, steps the number of set operations since perm was constructed.    *)
(* A run constructs a set, combines it with other sets and reads it.       *)
(***************************************************************************)
\* bit positions raw values are built from: undeclared ones (47, 63, 51),
\* the aliased bit 30 and declared ones
SampleBits == <<47, 30, 63, 6, 51, 50, 0, 46>>

RawSamples ==
    SUBSET {SampleBits[i] : i \in 1..(IF NBits < Len(SampleBits) THEN NBits ELSE Len(SampleBits))}
        \cup {AllOnes}

Presets == {PRESET_GENERAL, PRESET_TEXT, PRESET_VOICE, dm_permissions, empty}

\* the right-hand sides of the set operations: truncated raw values, the
\* presets, the two flags that share bit 30 and the flags the tests and the
\* documented examples combine
Operands ==
    {from_bits_truncate(raw) : raw \in RawSamples}
        \cup Presets
        \cup {Flag("MANAGE_GUILD_EXPRESSIONS"), Flag("MANAGE_EMOJIS_AND_STICKERS"),
              Flag("MANAGE_ROLES"), Flag("STREAM"), Flag("ATTACH_FILES")}

\* MANAGE_GUILD | MANAGE_ROLES as a number: 268435488
TestBits == <<32, 64, 0>>

\* what a wire format may hand Permissions::deserialize
PermShapes ==
    Shapes \cup {[t |-> "u64", n |-> TestBits], [t |-> "str", s |-> ToDec(TestBits)]}

\* the calls that only read the set
Reads == {"get_permission_names", "display", "serialize"}

\* the calls whose result is looked at and not worked on
Observed == Reads \cup {"deserialize"}

Fresh == pout = None

\* a set operation may follow a construction or another set operation
Combinable == pout # None /\ pout.op \notin Observed /\ steps < MaxOps

PermFromBitsTruncate(raw) ==
    /\ Fresh
    /\ perm' = from_bits_truncate(raw)
    /\ pout' = [op |-> "from_bits_truncate", raw |-> raw]
    /\ steps' = 0
    /\ UNCHANGED <<idVars, editVars>>

PermFlag(i) ==
    /\ Fresh
    /\ perm' = Flag(Flags[i].upper)
    /\ pout' = [op |-> "flag", i |-> i]
    /\ steps' = 0
    /\ UNCHANGED <<idVars, editVars>>

PermPreset(p) ==
    /\ Fresh
    /\ perm' = p
    /\ pout' = [op |-> "preset"]
    /\ steps' = 0
    /\ UNCHANGED <<idVars, editVars>>

PermUnion(other) ==
    /\ Combinable
    /\ perm' = union(perm, other)
    /\ pout' = [op |-> "union"]
    /\ steps' = steps + 1
    /\ UNCHANGED <<idVars, editVars>>

PermIntersection(other) ==
    /\ Combinable
    /\ perm' = intersection(perm, other)
    /\ pout' = [op |-> "intersection"]
    /\ steps' = steps + 1
    /\ UNCHANGED <<idVars, editVars>>

PermDifference(other) ==
    /\ Combinable
    /\ perm' = difference(perm, other)
    /\ pout' = [op |-> "difference"]
    /\ steps' = steps + 1
    /\ UNCHANGED <<idVars, editVars>>

PermToggle(other) ==
    /\ Combinable
    /\ perm' = toggle(perm, other)
    /\ pout' = [op |-> "toggle"]
    /\ steps' = steps + 1
    /\ UNCHANGED <<idVars, editVars>>

PermGetNames ==
    /\ pout # None /\ pout.op \notin Observed
    /\ pout' = [op |-> "get_permission_names", names |-> get_permission_names(perm)]
    /\ UNCHANGED <<perm, steps, idVars, editVars>>

PermSerialize ==
    /\ pout # None /\ pout.op \notin Observed
    /\ pout' = [op |-> "serialize", wire |-> Permissions_serialize(perm)]
    /\ UNCHANGED <<perm, steps, idVars, editVars>>

\* a failed deserialization returns no set: the one held stays as it was
PermDeserialize(shape) ==
    LET res == Permissions_deserialize(shape)
    IN  /\ Fresh
        /\ perm' = IF res.t = "Ok" THEN res.val ELSE perm
        /\ pout' = [op |-> "deserialize", shape |-> shape, res |-> res]
        /\ steps' = 0
        /\ UNCHANGED <<idVars, editVars>>

PermDisplay ==
    /\ pout # None /\ pout.op \notin Observed
    /\ pout' = [op |-> "display", text |-> fmt(perm)]
    /\ UNCHANGED <<perm, steps, idVars, editVars>>

NextPerm ==
    \/ \E raw \in RawSamples : PermFromBitsTruncate(raw)
    \/ \E i \in 1..Len(Flags) : PermFlag(i)
    \/ \E p \in Presets : PermPreset(p)
    \/ \E other \in Operands : PermUnion(other)
    \/ \E other \in Operands : PermIntersection(other)
    \/ \E other \in Operands : PermDifference(other)
    \/ \E other \in Operands : PermToggle(other)
    \/ PermGetNames
    \/ PermDisplay
    \/ PermSerialize
    \/ \E shape \in PermShapes : PermDeserialize(shape)

SpecPerm == Init /\ [][NextPerm]_vars

(***************************************************************************)
(* Properties of the permission sets, checked under SpecPerm.              *)
(***************************************************************************)
\* the bit positions no table entry names
Undeclared == {47} \cup (51..63)

\* C8: from_bits_truncate(raw) has exactly the bits of raw that the flag
\* table declares; bit 47 and bits 51..63 are never set in the result.
C8_Truncates ==
    (pout # None /\ pout.op = "from_bits_truncate") =>
        /\ bits(perm) = pout.raw \cap UNION {bits(Flag(Flags[i].upper)) : i \in 1..Len(Flags)}
        /\ bits(perm) = pout.raw \ Undeclared
        /\ bits(perm) \cap Undeclared = {}

\* a raw value with every bit set has been truncated to the declared bits
C8_Witness ==
    /\ pout # None /\ pout.op = "from_bits_truncate"
    /\ pout.raw = AllOnes
    /\ bits(perm) = AllOnes \ Undeclared

\* C9: after any sequence of union, intersection, difference and toggle on
\* sets built by from_bits_truncate, named flags or presets, no undeclared
\* bit is set.
C9_Closed == bits(perm) \cap Undeclared = {} /\ bits(perm) \subseteq AllOnes

\* two set operations, the last a difference, have left a nonempty set
C9_Witness ==
    /\ pout # None /\ pout.op = "difference"
    /\ steps = 2
    /\ bits(perm) # {}

\* the table positions of the canonical entries whose bit is set in p
Canonical(p) == {i \in 1..Len(Flags) : ~Flags[i].deprecated /\ Flags[i].bit \in bits(p)}

\* C10: get_permission_names lists, in declaration order, exactly the names
\* of the canonical flags whose bit is set; "Manage Emojis and Stickers" is
\* never listed although its predicate holds with bit 30, and the number of
\* names is the number of set bits.
C10_Names ==
    (pout # None /\ pout.op = "get_permission_names") =>
        LET names == pout.names
            canon == Canonical(perm)
        IN  /\ Len(names) = Cardinality(canon)
            /\ Len(names) = Cardinality(bits(perm))
            /\ \A k \in 1..Len(names) :
                   \E i \in canon :
                       /\ names[k] = Flags[i].name
                       /\ Cardinality({j \in canon : j < i}) = k - 1
            /\ \A k \in 1..Len(names) : names[k] # "Manage Emojis and Stickers"
            /\ has(perm, FlagIndex("MANAGE_EMOJIS_AND_STICKERS")) <=> 30 \in bits(perm)
            /\ 30 \in bits(perm) =>
                   \E k \in 1..Len(names) : names[k] = "Manage Guild Expressions"

\* the names of a set holding bit 30 among others have been listed
C10_Witness ==
    /\ pout # None /\ pout.op = "get_permission_names"
    /\ {6, 30} \subseteq bits(perm)
    /\ has(perm, FlagIndex("MANAGE_EMOJIS_AND_STICKERS"))
    /\ Len(pout.names) >= 2

\* C11 as stated: the set of exactly Add Reactions, Attach Files and Stream
\* renders as "Add Reactions, Attach Files and Stream".
C11_AsStated ==
    (pout # None /\ pout.op = "display" /\ bits(perm) = {6, 9, 15}) =>
        pout.text = "Add Reactions, Attach Files and Stream"

\* C11: the set of exactly Add Reactions, Attach Files and Stream renders
\* its names in declaration order (bit 9 before bit 15), as
\* "Add Reactions, Stream and Attach Files".
C11_Rendered ==
    (pout # None /\ pout.op = "display" /\ bits(perm) = {6, 9, 15}) =>
        pout.text = "Add Reactions, Stream and Attach Files"

\* ADD_REACTIONS | STREAM | ATTACH_FILES has been rendered
C11_Witness ==
    /\ pout # None /\ pout.op = "display"
    /\ bits(perm) = {6, 9, 15}
    /\ steps = 2

\* the names from the k-th on, each followed by ", " except the last
RECURSIVE CommaJoin(_, _, _)
CommaJoin(names, k, last) ==
    IF k > last THEN ""
    ELSE IF k = last THEN names[k]
    ELSE names[k] \o ", " \o CommaJoin(names, k + 1, last)

\* C12: with the names n1..nk of get_permission_names, no name renders as
\* the empty string, one name as itself, and more as n1..n(k-1) joined by
\* ", " then " and " then nk, with no comma before " and ".
C12_Display ==
    (pout # None /\ pout.op = "display") =>
        LET names == get_permission_names(perm)
            k == Len(names)
        IN  pout.text =
                IF k = 0 THEN ""
                ELSE IF k = 1 THEN names[1]
                ELSE CommaJoin(names, 1, k - 1) \o " and " \o names[k]

\* a set of a single flag has been rendered as that flag's name alone
C12_Witness ==
    /\ pout # None /\ pout.op = "display"
    /\ bits(perm) = {9}
    /\ pout.text = "Stream"

\* C13: a permission set serializes as a JSON string holding the base-10
\* numeral of its bits, never as a number; Manage Guild (bit 5) with Manage
\* Roles (bit 28) serializes as "268435488".
C13_Serialize ==
    (pout # None /\ pout.op = "serialize") =>
        /\ IsDecimalOf(pout.wire, bits_u64(perm))
        /\ BitsOf(bits_u64(perm)) = bits(perm)
        /\ bits(perm) = {5, 28} => pout.wire.s = S(<<2, 6, 8, 4, 3, 5, 4, 8, 8>>)

\* MANAGE_GUILD | MANAGE_ROLES has been serialized
C13_Witness ==
    /\ pout # None /\ pout.op = "serialize"
    /\ bits(perm) = {5, 28}
    /\ pout.wire.t = "str"

\* the numbers whose two wire forms are compared
PermNumbers == U64Samples \cup {TestBits, Max64}

\* C14: for every u64 n, deserializing the JSON integer n and the JSON
\* string of the decimal digits of n both succeed, and both give
\* from_bits_truncate(n).
C14_BothShapes ==
    (pout # None /\ pout.op = "deserialize") =>
        \A v \in PermNumbers :
            (pout.shape = [t |-> "u64", n |-> v] \/ pout.shape = [t |-> "str", s |-> ToDec(v)])
                => /\ pout.res = Ok(from_bits_truncate(BitsOf(v)))
                   /\ perm = from_bits_truncate(BitsOf(v))

\* the string "18446744073709551615" has been deserialized to every declared
\* flag, the undeclared bits dropped
C14_Witness ==
    /\ pout # None /\ pout.op = "deserialize"
    /\ pout.shape = [t |-> "str", s |-> MaxText]
    /\ pout.res.t = "Ok"
    /\ perm = all

\* one or more decimal digits and nothing else
AllDigits(s) == Len(s) > 0 /\ \A i \in 1..Len(s) : IsDigit(s[i])

\* a numeric wire value as the claim counts it: a JSON integer or a string
\* of decimal digits
NumericShape(shape) ==
    \/ shape.t \in {"u64", "i64"}
    \/ shape.t = "str" /\ AllDigits(shape.s)

\* C15 as stated: deserialization fails only for a string that is not a
\* numeral, and every numeric wire value (a JSON integer or a string of
\* decimal digits) deserializes successfully.
C15_AsStated ==
    (pout # None /\ pout.op = "deserialize") =>
        /\ pout.res.t = "Err" => ~NumericShape(pout.shape)
        /\ NumericShape(pout.shape) => pout.res.t = "Ok"

\* C15: an unsigned JSON integer always deserializes, and a JSON string
\* deserializes exactly when it is a base-10 numeral (digits, optionally
\* behind a '+') of a value of at most u64::MAX; the result is the value
\* with the undeclared bits dropped. A string of decimal digits naming a
\* larger value is refused like any other string that is not such a numeral.
C15_Deserialize ==
    (pout # None /\ pout.op = "deserialize") =>
        /\ pout.shape.t = "u64" =>
              pout.res = Ok([bits |-> BitsOf(pout.shape.n) \ Undeclared])
        /\ (pout.shape.t = "str" /\ IsNumeral(pout.shape.s)) =>
              /\ pout.res.t = "Ok"
              /\ bits(pout.res.val) =
                    BitsOf(ParseDigits(Unsigned(pout.shape.s), 1, Zero64).val) \ Undeclared
        /\ (pout.shape.t = "str" /\ ~IsNumeral(pout.shape.s)) =>
              /\ pout.res.t = "Err"
              /\ perm = empty

\* the digit string "18446744073709551616" has been refused
C15_Witness ==
    /\ pout # None /\ pout.op = "deserialize"
    /\ pout.shape.t = "str"
    /\ AllDigits(pout.shape.s)
    /\ ~IsNumeral(pout.shape.s)
    /\ pout.res.t = "Err"

\* the bits of the flags that are declared and not deprecated
CanonicalBits == {Flags[i].bit : i \in {j \in 1..Len(Flags) : ~Flags[j].deprecated}}

\* C16: the presets are fixed unions of declared canonical flags; the text
\* and the voice preset share no flag and together make up the general one.
C16_Presets ==
    (pout # None /\ pout.op = "preset"
        /\ perm \in {PRESET_GENERAL, PRESET_TEXT, PRESET_VOICE}) =>
        /\ bits(perm) \subseteq CanonicalBits
        /\ bits(PRESET_GENERAL) = {0, 6, 10, 11, 12, 14, 15, 16, 17, 18, 20, 21, 25, 26}
        /\ bits(PRESET_VOICE) = {20, 21, 25}
        /\ intersection(PRESET_TEXT, PRESET_VOICE) = empty
        /\ union(PRESET_TEXT, PRESET_VOICE) = PRESET_GENERAL

\* the text preset has been taken: eleven flags, none of them a voice flag
C16_Witness ==
    /\ pout # None /\ pout.op = "preset"
    /\ perm = PRESET_TEXT
    /\ Cardinality(bits(perm)) = 11

(***************************************************************************)
(* EditMessage: a map from field names to JSON values, filled by the       *)
(* builder methods.  A CreateEmbed is an opaque map; a closure handed to    *)
(* add_embed or embed is modelled by the embed it leaves behind.            *)
(***************************************************************************)
\* HashMap::insert
Insert(m, k, v) == [x \in DOMAIN m \cup {k} |-> IF x = k THEN v ELSE m[x]]

\* HashMap::remove
Remove(m, k) == [x \in DOMAIN m \ {k} |-> m[x]]

\* serde_json::Value
String(s) == [t |-> "String", s |-> s]

Array(items) == [t |-> "Array", items |-> items]

Object(map) == [t |-> "Object", map |-> map]

Number(n) == [t |-> "Number", n |-> n]

\* a builder method returning &mut Self: the map it leaves
Done(m) == [t |-> "Done", map |-> m]

\* EditMessage::content
content(m, c) == Done(Insert(m, "content", String(c)))

\* EditMessage::_add_embed: the entry is created as an empty array when
\* absent; as_array_mut().expect panics on an entry that is not an array
_add_embed(m, embed) ==
    LET withEntry == IF "embeds" \in DOMAIN m THEN m ELSE Insert(m, "embeds", Array(<<>>))
        embeds == withEntry["embeds"]
    IN  IF embeds.t # "Array" THEN Panic
        ELSE Done(Insert(withEntry, "embeds", Array(Append(embeds.items, Object(embed)))))

\* EditMessage::add_embed: f fills a default CreateEmbed
add_embed(m, f) == _add_embed(m, f)

\* set_embed storing the embed itself, not a one-element array
set_embed_bare(m, embed) == Done(Insert(m, "embeds", Object(embed)))

\* EditMessage::set_embed
set_embed(m, embed) == Done(Insert(m, "embeds", Array(<<Object(embed)>>)))

\* EditMessage::embed: f fills a default CreateEmbed
embed(m, f) == set_embed(m, f)

\* EditMessage::set_embeds: _add_embed for each embed of the list in turn
RECURSIVE set_embeds(_, _)
set_embeds(m, embeds) ==
    IF Len(embeds) = 0 THEN Done(m)
    ELSE LET r == _add_embed(m, Head(embeds))
         IN  IF r.t = "Panic" THEN r ELSE set_embeds(r.map, Tail(embeds))

\* EditMessage::suppress_embeds: 1 << 2 is SUPPRESS_EMBEDS
suppress_embeds(m, suppress) ==
    IF suppress THEN Done(Insert(m, "flags", Number(2 ^ 2)))
    ELSE Done(Remove(m, "flags"))

\* EditMessage::components
components(m, cs) == Done(Insert(m, "components", Array(cs)))

\* the embeds a builder holds, none when there is no array under "embeds"
EmbedsOf(m) ==
    IF "embeds" \in DOMAIN m /\ m["embeds"].t = "Array" THEN m["embeds"].items ELSE <<>>

(***************************************************************************)
(* Steps of a caller of the builder.                                        *)
(***************************************************************************)
Embeds == {"title", "image"}

EmbedLists == UNION {[1..n -> Embeds] : n \in 0..MaxList}

\* room for n more embeds within the explored sizes
Room(n) == Len(EmbedsOf(msg)) + n <= MaxEmbeds

\* a call that returned leaves its map behind; a panic ends the caller
Edit(op, given, r) ==
    /\ eout.t # "Panic"
    /\ msg' = IF r.t = "Done" THEN r.map ELSE msg
    /\ eout' = [t |-> IF r.t = "Done" THEN "Returned" ELSE "Panic",
                op |-> op, given |-> given, before |-> msg]
    /\ UNCHANGED <<idVars, permVars>>

EditContent == Edit("content", <<>>, content(msg, "hello"))

EditAddEmbed(f) == Room(1) /\ Edit("add_embed", <<f>>, add_embed(msg, f))

EditEmbed(f) == Edit("embed", <<f>>, embed(msg, f))

EditSetEmbed(e) == Edit("set_embed", <<e>>, set_embed(msg, e))

EditSetEmbeds(es) == Room(Len(es)) /\ Edit("set_embeds", es, set_embeds(msg, es))

EditSuppressEmbeds(suppress) == Edit("suppress_embeds", <<>>, suppress_embeds(msg, suppress))

EditComponents == Edit("components", <<>>, components(msg, <<>>))

NextEdit ==
    \/ EditContent
    \/ \E f \in Embeds : EditAddEmbed(f)
    \/ \E f \in Embeds : EditEmbed(f)
    \/ \E e \in Embeds : EditSetEmbed(e)
    \/ \E es \in EmbedLists : EditSetEmbeds(es)
    \/ \E suppress \in BOOLEAN : EditSuppressEmbeds(suppress)
    \/ EditComponents

SpecEdit == Init /\ [][NextEdit]_vars

(***************************************************************************)
(* Properties of the message builder.                                       *)
(***************************************************************************)
\* the JSON objects of a list of embeds, in order
Objects(es) == [i \in 1..Len(es) |-> Object(es[i])]

\* C17 as stated: after set_embeds(E) on a builder reached by earlier
\* add_embed, embed, set_embed or set_embeds calls, the "embeds" array holds
\* exactly the embeds of E, in order, and no embed of an earlier call.
C17_SetEmbedsReplaces ==
    (eout.t = "Returned" /\ eout.op = "set_embeds") =>
        EmbedsOf(msg) = Objects(eout.given)

\* C18: embed and set_embed leave exactly the one given embed under
\* "embeds"; add_embed appends exactly one embed at the end and keeps the
\* earlier ones in order; the "embeds" entry, when present, is an array, so
\* the expectation in _add_embed never fails.
C18_Embeds ==
    /\ eout.t # "Panic"
    /\ "embeds" \in DOMAIN msg => msg["embeds"].t = "Array"
    /\ (eout.t = "Returned" /\ eout.op \in {"embed", "set_embed"}) =>
          /\ "embeds" \in DOMAIN msg
          /\ msg["embeds"] = Array(<<Object(eout.given[1])>>)
    /\ (eout.t = "Returned" /\ eout.op = "add_embed") =>
          /\ "embeds" \in DOMAIN msg
          /\ msg["embeds"] = Array(Append(EmbedsOf(eout.before), Object(eout.given[1])))

\* add_embed has appended a second embed behind the one already there
C18_Witness ==
    /\ eout.t = "Returned" /\ eout.op = "add_embed"
    /\ Len(EmbedsOf(eout.before)) = 1
    /\ eout.before["embeds"] = Array(<<Object("title")>>)
    /\ EmbedsOf(msg) = <<Object("title"), Object("image")>>

====
